---- MODULE Spec2Model ----
(***************************************************************************)
(* Model of src/main.py: the NEPSE FastAPI service.                        *)
(*   - RateLimiterMiddleware.dispatch in front of every route, sharing one *)
(*     TokenBucket(capacity=4, refill_rate=2);                             *)
(*   - get_trade_turnover_transaction_subindices, the join of the upstream *)
(*     feeds by symbol and by sector;                                      *)
(*   - the two routes with a symbol path parameter.                        *)
(***************************************************************************)
EXTENDS Integers, Sequences, FiniteSets, TLC

VARIABLES
    \* ---- aggregation route: the upstream snapshot and the handler's result
    companyList,      \* nepse.getCompanyList()
    turnoverList,     \* nepse.getTopTenTurnoverScrips()
    transactionList,  \* nepse.getTopTenTransactionScrips()
    tradeList,        \* nepse.getTopTenTradeScrips()
    gainersList,      \* nepse.getTopGainers()
    losersList,       \* nepse.getTopLosers()
    subIndexList,     \* nepse.getNepseSubIndices()
    aggResponse,      \* what the route answered ("none" before the call)
    \* ---- rate limiter: the shared bucket, the clock and the requests
    tokens,           \* bucket.tokens, in 1/TicksPerSecond of a token
    last_refill,      \* bucket.last_refill, in ticks
    now,              \* the clock, in ticks
    arrived,          \* requests that entered dispatch so far
    req,              \* per request: where it is and what happened to it
    spent,            \* decrements of bucket.tokens so far
    streak,           \* the take_token calls made since the clock last moved
    \* ---- the routes with a symbol path parameter
    symResponse       \* per route: the last request and what it was answered

rlVars == <<tokens, last_refill, now, arrived, req, spent, streak>>

aggVars == <<companyList, turnoverList, transactionList, tradeList,
             gainersList, losersList, subIndexList, aggResponse>>

vars == <<aggVars, rlVars, symResponse>>

(***************************************************************************)
(* Bounds of the upstream snapshots.                                       *)
(***************************************************************************)
Symbols == {"AAA", "BBB"}
MaxTurnoverLen == 2  \* longest turnover-leaders feed
MaxFeedLen == 1      \* longest transaction / trade / gainers / losers feed

SymNo(s) == IF s = "AAA" THEN 1 ELSE 2

\* sector names a company may carry: two mapped ones and one the table lacks
SectorNames == {"Finance", "Others", "Promoter Share"}

RECURSIVE SeqsUpTo(_, _)
SeqsUpTo(S, n) ==
    IF n = 0 THEN {<<>>}
    ELSE LET shorter == SeqsUpTo(S, n - 1)
         IN  shorter \cup {Append(q, x) : q \in {p \in shorter : Len(p) = n - 1}, x \in S}

\* a feed is a list of records; the i-th record of a feed names one symbol
\* and carries amounts that depend on the feed, the symbol and the rank
SymbolFeeds(n) == SeqsUpTo(Symbols, n)

TurnoverFeed(q) == [i \in DOMAIN q |-> [symbol |-> q[i], turnover |-> 1000 + 100 * SymNo(q[i]) + i]]
TransactionFeed(q) == [i \in DOMAIN q |-> [symbol |-> q[i], totalTrades |-> 20 + 4 * SymNo(q[i]) + i]]
TradeFeed(q) == [i \in DOMAIN q |-> [symbol |-> q[i], shareTraded |-> 300 + 30 * SymNo(q[i]) + i]]
GainersFeed(q) ==
    [i \in DOMAIN q |-> [symbol |-> q[i], pointChange |-> 3 * SymNo(q[i]) + i,
                         percentageChange |-> SymNo(q[i]) + i, ltp |-> 500 + 10 * SymNo(q[i]) + i]]
LosersFeed(q) ==
    [i \in DOMAIN q |-> [symbol |-> q[i], pointChange |-> 0 - (3 * SymNo(q[i]) + i),
                         percentageChange |-> 0 - (SymNo(q[i]) + i), ltp |-> 400 + 10 * SymNo(q[i]) + i]]

\* company lists: every listed symbol once (symbols are unique in a snapshot)
CompanyLists ==
    {<<>>}
    \cup {<<[symbol |-> s, sectorName |-> c]>> : s \in Symbols, c \in SectorNames}
    \cup {<<[symbol |-> "AAA", sectorName |-> c1], [symbol |-> "BBB", sectorName |-> c2]>> :
            c1 \in SectorNames, c2 \in SectorNames}

(***************************************************************************)
(* sector_mapper, main.py 415-429                                          *)
(***************************************************************************)
sector_mapper ==
    [sector \in {"Commercial Banks", "Development Banks", "Finance", "Hotels And Tourism",
                 "Hydro Power", "Investment", "Life Insurance", "Manufacturing And Processing",
                 "Microfinance", "Mutual Fund", "Non Life Insurance", "Others", "Tradings"} |->
        CASE sector = "Commercial Banks" -> "Banking SubIndex"
          [] sector = "Development Banks" -> "Development Bank Index"
          [] sector = "Finance" -> "Finance Index"
          [] sector = "Hotels And Tourism" -> "Hotels And Tourism Index"
          [] sector = "Hydro Power" -> "HydroPower Index"
          [] sector = "Investment" -> "Investment Index"
          [] sector = "Life Insurance" -> "Life Insurance"
          [] sector = "Manufacturing And Processing" -> "Manufacturing And Processing"
          [] sector = "Microfinance" -> "Microfinance Index"
          [] sector = "Mutual Fund" -> "Mutual Fund"
          [] sector = "Non Life Insurance" -> "Non Life Insurance"
          [] sector = "Others" -> "Others Index"
          [] sector = "Tradings" -> "Trading Index"]

\* the labels the upstream sub-index feed is keyed by, in feed order
SubIndexOrder ==
    <<"Banking SubIndex", "Development Bank Index", "Finance Index", "Hotels And Tourism Index",
      "HydroPower Index", "Investment Index", "Life Insurance", "Manufacturing And Processing",
      "Microfinance Index", "Mutual Fund", "Non Life Insurance", "Others Index", "Trading Index">>

FullSubIndexFeed == [i \in DOMAIN SubIndexOrder |-> [index |-> SubIndexOrder[i], currentValue |-> 2000 + i]]

IsNotOthersIndex(obj) == obj.index # "Others Index"

\* the sub-index feed: complete, or lacking the "Others Index" record
SubIndexFeeds == {FullSubIndexFeed, SelectSeq(FullSubIndexFeed, IsNotOthersIndex)}

(***************************************************************************)
(* {obj["symbol"]: obj for obj in feed}: the last record of a symbol wins  *)
(* main.py 403-409                                                         *)
(***************************************************************************)
LastIndexOf(feed, s) ==
    CHOOSE i \in DOMAIN feed :
        /\ feed[i].symbol = s
        /\ \A j \in DOMAIN feed : feed[j].symbol = s => j <= i

IndexBySymbol(feed) ==
    [s \in {feed[i].symbol : i \in DOMAIN feed} |-> feed[LastIndexOf(feed, s)]]

\* _get_nepse_sub_indices, main.py 195-199
_get_nepse_sub_indices(feed) ==
    [l \in {feed[i].index : i \in DOMAIN feed} |->
        feed[CHOOSE i \in DOMAIN feed :
                /\ feed[i].index = l
                /\ \A j \in DOMAIN feed : feed[j].index = l => j <= i]]

(***************************************************************************)
(* The per-symbol fields, main.py 437-472.  A subscript of a dict by a key *)
(* it lacks raises KeyError, which nothing in the handler catches.         *)
(***************************************************************************)
TotalTurnover(symbol, turnover) ==
    IF symbol \in DOMAIN turnover THEN turnover[symbol].turnover ELSE 0

TotalTrades(symbol, transaction) ==
    IF symbol \in DOMAIN transaction THEN transaction[symbol].totalTrades ELSE 0

\* main.py 443-445: the condition tests the transaction leaders
TotalTradeQuantityRaises(symbol, transaction, trade) ==
    symbol \in DOMAIN transaction /\ symbol \notin DOMAIN trade

TotalTradeQuantity(symbol, transaction, trade) ==
    IF symbol \in DOMAIN transaction /\ symbol \in DOMAIN trade
    THEN trade[symbol].shareTraded
    ELSE 0

PriceChangeLosersFirst(symbol, gainers, losers) ==
    IF symbol \in DOMAIN losers
    THEN <<losers[symbol].pointChange, losers[symbol].percentageChange, losers[symbol].ltp>>
    ELSE IF symbol \in DOMAIN gainers
    THEN <<gainers[symbol].pointChange, gainers[symbol].percentageChange, gainers[symbol].ltp>>
    ELSE <<0, 0, 0>>

\* main.py 447-472
PriceChange(symbol, gainers, losers) ==
    IF symbol \in DOMAIN gainers
    THEN <<gainers[symbol].pointChange, gainers[symbol].percentageChange, gainers[symbol].ltp>>
    ELSE IF symbol \in DOMAIN losers
    THEN <<losers[symbol].pointChange, losers[symbol].percentageChange, losers[symbol].ltp>>
    ELSE <<0, 0, 0>>

\* main.py 433-474, one iteration of the loop over companies
company_details(symbol, companies, turnover, transaction, trade, gainers, losers) ==
    LET change == PriceChange(symbol, gainers, losers)
    IN  [symbol |-> symbol,
         sectorName |-> companies[symbol].sectorName,
         totalTurnover |-> TotalTurnover(symbol, turnover),
         totalTrades |-> TotalTrades(symbol, transaction),
         totalTradeQuantity |-> TotalTradeQuantity(symbol, transaction, trade),
         pointChange |-> change[1],
         percentageChange |-> change[2],
         ltp |-> change[3]]

(***************************************************************************)
(* The per-sector records, main.py 476-492                                 *)
(***************************************************************************)
RECURSIVE SumOver(_, _, _)
SumOver(S, details, field) ==
    IF S = {} THEN 0
    ELSE LET s == CHOOSE x \in S : TRUE
         IN  details[s][field] + SumOver(S \ {s}, details, field)

SectorTotalUnfiltered(sector, scrips_details, field) ==
    SumOver(DOMAIN scrips_details, scrips_details, field)

\* main.py 479-484
SectorTotal(sector, scrips_details, field) ==
    SumOver({s \in DOMAIN scrips_details : scrips_details[s].sectorName = sector},
            scrips_details, field)

SectorIndexRaisesOnlyOnFeed(sector, sector_sub_indices) ==
    /\ sector \in DOMAIN sector_mapper
    /\ sector_mapper[sector] \notin DOMAIN sector_sub_indices

\* main.py 490: sector_sub_indices[sector_mapper[sector]]
SectorIndexRaises(sector, sector_sub_indices) ==
    \/ sector \notin DOMAIN sector_mapper
    \/ sector_mapper[sector] \notin DOMAIN sector_sub_indices

NoIndex == [index |-> "", currentValue |-> 0]

SectorIndex(sector, sector_sub_indices) ==
    IF /\ sector \in DOMAIN sector_mapper
       /\ sector_mapper[sector] \in DOMAIN sector_sub_indices
    THEN sector_sub_indices[sector_mapper[sector]]
    ELSE NoIndex

(***************************************************************************)
(* get_trade_turnover_transaction_subindices, main.py 402-494              *)
(***************************************************************************)
ServerError == [status |-> "error", exception |-> "KeyError"]

AggregateResult(cl, tu, tr, td, ga, lo, si) ==
    LET companies == IndexBySymbol(cl)
        turnover == IndexBySymbol(tu)
        transaction == IndexBySymbol(tr)
        trade == IndexBySymbol(td)
        gainers == IndexBySymbol(ga)
        losers == IndexBySymbol(lo)
        sector_sub_indices == _get_nepse_sub_indices(si)
        scrips_details ==
            [symbol \in DOMAIN companies |->
                company_details(symbol, companies, turnover, transaction, trade, gainers, losers)]
        sectors == {companies[s].sectorName : s \in DOMAIN companies}
        sector_details ==
            [sector \in sectors |->
                [totalTrades |-> SectorTotal(sector, scrips_details, "totalTrades"),
                 totalTradeQuantity |-> SectorTotal(sector, scrips_details, "totalTradeQuantity"),
                 totalTurnover |-> SectorTotal(sector, scrips_details, "totalTurnover"),
                 index |-> SectorIndex(sector, sector_sub_indices),
                 sectorName |-> sector]]
    IN  IF \E symbol \in DOMAIN companies : TotalTradeQuantityRaises(symbol, transaction, trade)
        THEN ServerError
        ELSE IF \E sector \in sectors : SectorIndexRaises(sector, sector_sub_indices)
        THEN ServerError
        ELSE [status |-> "ok", scripsDetails |-> scrips_details, sectorsDetails |-> sector_details]

get_trade_turnover_transaction_subindices ==
    /\ aggResponse.status = "none"
    /\ aggResponse' = AggregateResult(companyList, turnoverList, transactionList, tradeList,
                                      gainersList, losersList, subIndexList)
    /\ UNCHANGED <<companyList, turnoverList, transactionList, tradeList,
                   gainersList, losersList, subIndexList, rlVars, symResponse>>

(***************************************************************************)
(* The token bucket, main.py 105-106: TokenBucket(capacity=4,              *)
(* refill_rate=2).  Time is counted in ticks of 1/TicksPerSecond seconds   *)
(* and tokens in 1/TicksPerSecond of a token, so that elapsed *            *)
(* refill_rate is exact: one tick of time adds refill_rate units.          *)
(***************************************************************************)
capacity_five == 4 + 1
capacity == 4
refill_rate_four == 2 + 2
refill_rate == 2

TicksPerHalfSecond == 2  \* resolution of the clock
MaxRequests == 6         \* inbound requests

TicksPerSecond == 2 * TicksPerHalfSecond
OneToken == TicksPerSecond
\* the clock runs for three seconds: an empty bucket is full after two
MaxTime == 3 * TicksPerSecond
Requests == 1..MaxRequests

Min(a, b) == IF a <= b THEN a ELSE b

RefilledUncapped(t, last, clock) == t + (clock - last) * refill_rate

\* tokens after the lazy refill: min(capacity, tokens + elapsed * refill_rate)
Refilled(t, last, clock) == Min(capacity * OneToken, t + (clock - last) * refill_rate)

\* take_token() -> bool: true iff a whole token is there after the refill
take_token_result(t, last, clock) == Refilled(t, last, clock) >= OneToken

\* bucket.tokens after take_token()
take_token_tokens(t, last, clock) ==
    IF take_token_result(t, last, clock)
    THEN Refilled(t, last, clock) - OneToken
    ELSE Refilled(t, last, clock)

NewRequest ==
    [pc |-> "new", takeCalls |-> 0, admitted |-> FALSE, handlerRuns |-> 0,
     upstreamCalls |-> 0, status |-> 0, detail |-> ""]

NoStreak == [calls |-> 0, admitted |-> 0, fromFull |-> FALSE, afterExhaustion |-> FALSE]

\* bookkeeping of back-to-back calls: a call made after the clock moved (or
\* the first call ever) opens a new streak
StreakAfter(result) ==
    IF streak.calls = 0 \/ now # last_refill
    THEN [calls |-> 1, admitted |-> IF result THEN 1 ELSE 0,
          \* the bucket holds capacity tokens when the streak opens
          fromFull |-> Refilled(tokens, last_refill, now) = capacity * OneToken,
          \* the streak opens half a second after a call left less than a token
          afterExhaustion |-> streak.calls > 0 /\ tokens < OneToken
                              /\ now - last_refill = TicksPerHalfSecond]
    ELSE [streak EXCEPT !.calls = @ + 1, !.admitted = @ + (IF result THEN 1 ELSE 0)]

(***************************************************************************)
(* RateLimiterMiddleware.dispatch, main.py 97-103.  The coroutine has no   *)
(* await between take_token() and its decision, so the event loop runs it  *)
(* as one step; call_next(request) hands the request to the route.         *)
(***************************************************************************)
Outcome(rec, result, admit) ==
    IF admit
    THEN [rec EXCEPT !.pc = "call_next", !.takeCalls = @ + 1, !.admitted = result]
    ELSE [rec EXCEPT !.pc = "rejected", !.takeCalls = @ + 1, !.admitted = result,
                     !.status = 429, !.detail = "Rate limit exceeded"]

\* call_next whatever take_token() returned
dispatch_unconditional(r) ==
    /\ r = arrived + 1
    /\ req[r].pc = "new"
    /\ LET result == take_token_result(tokens, last_refill, now)
       IN  /\ tokens' = take_token_tokens(tokens, last_refill, now)
           /\ last_refill' = now
           /\ spent' = IF result THEN spent + 1 ELSE spent
           /\ streak' = StreakAfter(result)
           /\ req' = [req EXCEPT ![r] = Outcome(@, result, TRUE)]
    /\ arrived' = arrived + 1
    /\ UNCHANGED <<now, aggVars, symResponse>>

\* the decision is taken on the bucket as read, and the decrement is lost
dispatch_lost_update(r) ==
    /\ r = arrived + 1
    /\ req[r].pc = "new"
    /\ LET result == take_token_result(tokens, last_refill, now)
       IN  /\ streak' = StreakAfter(result)
           /\ req' = [req EXCEPT ![r] = Outcome(@, result, result)]
    /\ arrived' = arrived + 1
    /\ UNCHANGED <<now, tokens, last_refill, spent, aggVars, symResponse>>

dispatch(r) ==
    /\ r = arrived + 1
    /\ req[r].pc = "new"
    /\ LET result == take_token_result(tokens, last_refill, now)
       IN  /\ tokens' = take_token_tokens(tokens, last_refill, now)
           /\ last_refill' = now
           /\ spent' = IF result THEN spent + 1 ELSE spent
           /\ streak' = StreakAfter(result)
           /\ req' = [req EXCEPT ![r] = Outcome(@, result, result)]
    /\ arrived' = arrived + 1
    /\ UNCHANGED <<now, aggVars, symResponse>>

\* call_next(request): the route handler of an admitted request runs and
\* calls the upstream client (main.py 150-494)
route_handler(r) ==
    /\ req[r].pc = "call_next"
    /\ req' = [req EXCEPT ![r] =
                 [@ EXCEPT !.pc = "responded", !.handlerRuns = @ + 1,
                           !.upstreamCalls = @ + 1, !.status = 200]]
    /\ UNCHANGED <<tokens, last_refill, now, arrived, spent, streak, aggVars, symResponse>>

\* time passes; nothing touches the bucket until the next take_token()
Tick ==
    /\ now < MaxTime
    /\ now' = now + 1
    /\ UNCHANGED <<tokens, last_refill, arrived, req, spent, streak, aggVars, symResponse>>

RLInit ==
    /\ tokens = capacity * OneToken
    /\ last_refill = 0
    /\ now = 0
    /\ arrived = 0
    /\ req = [r \in Requests |-> NewRequest]
    /\ spent = 0
    /\ streak = NoStreak

Dispatch == \E r \in Requests : dispatch(r)

RouteHandler == \E r \in Requests : route_handler(r)

(***************************************************************************)
(* The routes with a symbol path parameter, main.py 305-311 and 376-387.   *)
(* A detail string is the list of the pieces the f-string joins.           *)
(***************************************************************************)
PathSymbols == {"AAA", "BBB", "ZZZ"}

\* what the upstream client may raise, with str(e)
UpstreamErrors == {"JSONDecodeError", "KeyError", "ConnectionError"}

SymbolRoutes == {"/daily-scrip-price-graph/{symbol}", "/market-depth/{symbol}"}

NoResponse == [symbol |-> "", upstream |-> "", status |-> 0, detail |-> <<>>]

\* str(e) of a starlette HTTPException: "<status_code>: <detail>"
StrOfHTTPException(status_code, detail) == <<status_code, ": ">> \o detail

\* main.py 308-311; upstream is "data" or the exception raised
daily_scrip_price_graph_response(symbol, upstream) ==
    IF upstream = "data"
    THEN [symbol |-> symbol, upstream |-> upstream, status |-> 200, detail |-> <<>>]
    ELSE [symbol |-> symbol, upstream |-> upstream, status |-> 404,
          detail |-> <<"Data for symbol ", symbol, " not found: ", upstream>>]

\* main.py 379-387; upstream is "data", "None" or the exception raised.  The
\* HTTPException of line 382 is raised inside the try block and is an
\* Exception, so the handler of line 386 catches it.
market_depth_response(symbol, upstream) ==
    IF upstream = "data"
    THEN [symbol |-> symbol, upstream |-> upstream, status |-> 200, detail |-> <<>>]
    ELSE IF upstream = "None"
    THEN [symbol |-> symbol, upstream |-> upstream, status |-> 500,
          detail |-> <<"Error fetching market depth: ">>
                     \o StrOfHTTPException("404", <<"Market depth for ", symbol, " not available">>)]
    ELSE IF upstream = "JSONDecodeError"
    THEN [symbol |-> symbol, upstream |-> upstream, status |-> 404,
          detail |-> <<"Invalid data received for ", symbol>>]
    ELSE [symbol |-> symbol, upstream |-> upstream, status |-> 500,
          detail |-> <<"Error fetching market depth: ", upstream>>]

get_daily_scrip_price_graph ==
    /\ \E symbol \in PathSymbols, upstream \in {"data"} \cup UpstreamErrors :
          symResponse' = [symResponse EXCEPT !["/daily-scrip-price-graph/{symbol}"] =
                              daily_scrip_price_graph_response(symbol, upstream)]
    /\ UNCHANGED <<aggVars, rlVars>>

get_market_depth ==
    /\ \E symbol \in PathSymbols, upstream \in {"data", "None"} \cup UpstreamErrors :
          symResponse' = [symResponse EXCEPT !["/market-depth/{symbol}"] =
                              market_depth_response(symbol, upstream)]
    /\ UNCHANGED <<aggVars, rlVars>>

SymInit == symResponse = [route \in SymbolRoutes |-> NoResponse]

AggInit ==
    /\ companyList \in CompanyLists
    /\ turnoverList \in {TurnoverFeed(q) : q \in SymbolFeeds(MaxTurnoverLen)}
    /\ transactionList \in {TransactionFeed(q) : q \in SymbolFeeds(MaxFeedLen)}
    /\ tradeList \in {TradeFeed(q) : q \in SymbolFeeds(MaxFeedLen)}
    /\ gainersList \in {GainersFeed(q) : q \in SymbolFeeds(MaxFeedLen)}
    /\ losersList \in {LosersFeed(q) : q \in SymbolFeeds(MaxFeedLen)}
    /\ subIndexList \in SubIndexFeeds
    /\ aggResponse = [status |-> "none"]

AggIdle ==
    /\ companyList = <<>>
    /\ turnoverList = <<>>
    /\ transactionList = <<>>
    /\ tradeList = <<>>
    /\ gainersList = <<>>
    /\ losersList = <<>>
    /\ subIndexList = FullSubIndexFeed
    /\ aggResponse = [status |-> "none"]

\* the rate limiter in front of concurrently handled requests
Init == RLInit /\ AggIdle /\ SymInit

Next == Dispatch \/ RouteHandler \/ Tick

Spec == Init /\ [][Next]_vars

\* the aggregation route on every upstream snapshot of the bounded family
InitAgg == AggInit /\ RLInit /\ SymInit

NextAgg == get_trade_turnover_transaction_subindices

SpecAgg == InitAgg /\ [][NextAgg]_vars

\* the two symbol routes on every symbol and upstream outcome
InitSym == SymInit /\ AggIdle /\ RLInit

NextSym == get_daily_scrip_price_graph \/ get_market_depth

SpecSym == InitSym /\ [][NextSym]_vars

(***************************************************************************)
(* Properties of the rate limiter (Spec)                                   *)
(***************************************************************************)
Admitted == {r \in Requests : req[r].pc \in {"call_next", "responded"}}

\* C1: every request that entered dispatch had take_token() called exactly
\* once, and before its route handler ran; a request whose take_token()
\* returned false is rejected with 429 "Rate limit exceeded" and neither a
\* route handler nor an upstream client call runs for it.
C1_TokenTakenOnceBeforeHandler ==
    \A r \in Requests :
        /\ req[r].takeCalls = (IF req[r].pc = "new" THEN 0 ELSE 1)
        /\ req[r].handlerRuns > 0 => (req[r].takeCalls = 1 /\ req[r].admitted)
        /\ (req[r].pc # "new" /\ ~req[r].admitted) =>
              /\ req[r].pc = "rejected"
              /\ req[r].status = 429
              /\ req[r].detail = "Rate limit exceeded"
              /\ req[r].handlerRuns = 0
              /\ req[r].upstreamCalls = 0

C1_Witness ==
    \E r1, r2 \in Requests :
        /\ req[r1].pc = "rejected" /\ req[r1].status = 429
        /\ req[r2].pc = "responded" /\ req[r2].handlerRuns = 1
        /\ \E r3 \in Requests : req[r3].pc = "call_next"

\* C2: under any interleaving of the requests, each admitted request is one
\* decrement of the bucket (no lost update, no double spend): the admitted
\* requests never outnumber the initial tokens plus what time refilled, and
\* with zero elapsed time they are at most capacity = 4.
C2_NoLostUpdateNoDoubleSpend ==
    /\ Cardinality(Admitted) = spent
    /\ tokens + spent * OneToken <= capacity * OneToken + now * refill_rate
    /\ now = 0 => Cardinality(Admitted) <= 4

C2_Witness ==
    /\ now = 0
    /\ Cardinality(Admitted) = 4
    /\ \E r1, r2 \in Admitted : req[r1].pc = "call_next" /\ req[r2].pc = "responded" /\ r1 < r2
    /\ \E r \in Requests : req[r].pc = "rejected"

\* C3: in every reachable state of the bucket, 0 <= tokens <= capacity.
C3_TokensWithinCapacity == 0 <= tokens /\ tokens <= capacity * OneToken

C3_Witness == tokens = 0 /\ spent > capacity /\ now > 0

\* C4: from a full bucket and with zero elapsed time between the calls,
\* the first 4 take_token calls return true and every further one false.
C4_ExactlyCapacityBackToBack ==
    /\ streak.fromFull => streak.admitted = Min(streak.calls, 4)
    /\ now = 0 => \A r \in 1..arrived : req[r].admitted <=> r <= 4

C4_Witness ==
    /\ streak.fromFull
    /\ now > 0
    /\ streak.calls = 5
    /\ streak.admitted = 4
    /\ req[arrived].pc = "rejected"

\* C5: the refill is lazy and capped: it happens in take_token, which
\* decrements only when a whole token is there.  Calls that follow an
\* exhausted bucket by 0.5 s (1/refill_rate at refill_rate = 2) admit exactly
\* one request, and no wait makes more than capacity = 4 back-to-back calls
\* succeed.
C5_LazyCappedRefill ==
    /\ last_refill <= now
    /\ streak.afterExhaustion => streak.admitted = 1
    /\ streak.admitted <= 4
    /\ (arrived > 0 /\ req[arrived].pc = "rejected") => tokens < OneToken

C5_Witness ==
    /\ streak.afterExhaustion
    /\ streak.calls = 2
    /\ streak.admitted = 1
    /\ req[arrived].pc = "rejected"

(***************************************************************************)
(* Properties of the aggregation route (SpecAgg)                           *)
(***************************************************************************)
InFeed(feed, s) == \E i \in DOMAIN feed : feed[i].symbol = s

LastOf(feed, s) ==
    feed[CHOOSE i \in DOMAIN feed :
            feed[i].symbol = s /\ \A j \in DOMAIN feed : j > i => feed[j].symbol # s]

ListedSymbols == {companyList[i].symbol : i \in DOMAIN companyList}

\* C6: for every listed symbol, totalTurnover, totalTrades and
\* totalTradeQuantity are the value of the turnover, transaction and
\* trade-volume leaders respectively when the symbol is in that feed, else 0.
C6_EachTotalFromItsOwnLeaders ==
    aggResponse.status = "ok" =>
        \A s \in ListedSymbols :
            /\ aggResponse.scripsDetails[s].totalTurnover =
                  (IF InFeed(turnoverList, s) THEN LastOf(turnoverList, s).turnover ELSE 0)
            /\ aggResponse.scripsDetails[s].totalTrades =
                  (IF InFeed(transactionList, s) THEN LastOf(transactionList, s).totalTrades ELSE 0)
            /\ aggResponse.scripsDetails[s].totalTradeQuantity =
                  (IF InFeed(tradeList, s) THEN LastOf(tradeList, s).shareTraded ELSE 0)

\* C7: for every listed symbol, (pointChange, percentageChange, ltp) come
\* from gainers if the symbol is there, else from losers if it is there,
\* else are (0, 0, 0); a symbol in no feed at all has six zero fields.
C7_GainersThenLosersThenZero ==
    aggResponse.status = "ok" =>
        \A s \in ListedSymbols :
            LET d == aggResponse.scripsDetails[s]
                from == IF InFeed(gainersList, s) THEN LastOf(gainersList, s)
                        ELSE IF InFeed(losersList, s) THEN LastOf(losersList, s)
                        ELSE [pointChange |-> 0, percentageChange |-> 0, ltp |-> 0]
            IN  /\ d.pointChange = from.pointChange
                /\ d.percentageChange = from.percentageChange
                /\ d.ltp = from.ltp
                /\ (~InFeed(turnoverList, s) /\ ~InFeed(transactionList, s)
                    /\ ~InFeed(tradeList, s) /\ ~InFeed(gainersList, s)
                    /\ ~InFeed(losersList, s)) =>
                      /\ d.totalTurnover = 0 /\ d.totalTrades = 0 /\ d.totalTradeQuantity = 0
                      /\ d.pointChange = 0 /\ d.percentageChange = 0 /\ d.ltp = 0

C7_Witness ==
    /\ aggResponse.status = "ok"
    /\ \E s \in ListedSymbols :
          /\ InFeed(gainersList, s) /\ InFeed(losersList, s)
          /\ aggResponse.scripsDetails[s].pointChange > 0
    /\ \E s \in ListedSymbols :
          /\ ~InFeed(gainersList, s) /\ ~InFeed(losersList, s)
          /\ aggResponse.scripsDetails[s].ltp = 0

\* C8: in a successful response the sector records are exactly the sector
\* names of the company list, and each sector's three totals are the sums
\* of the field over the symbol records of that sector.
C8_SectorTotalsAreMemberSums ==
    aggResponse.status = "ok" =>
        LET scrips == aggResponse.scripsDetails
            members(sector) == {s \in DOMAIN scrips : scrips[s].sectorName = sector}
        IN  /\ DOMAIN aggResponse.sectorsDetails =
                  {companyList[i].sectorName : i \in DOMAIN companyList}
            /\ DOMAIN scrips = ListedSymbols
            /\ \A sector \in DOMAIN aggResponse.sectorsDetails :
                  /\ aggResponse.sectorsDetails[sector].totalTurnover =
                        SumOver(members(sector), scrips, "totalTurnover")
                  /\ aggResponse.sectorsDetails[sector].totalTrades =
                        SumOver(members(sector), scrips, "totalTrades")
                  /\ aggResponse.sectorsDetails[sector].totalTradeQuantity =
                        SumOver(members(sector), scrips, "totalTradeQuantity")

C8_Witness ==
    /\ aggResponse.status = "ok"
    /\ ListedSymbols = {"AAA", "BBB"}
    /\ \E sector \in DOMAIN aggResponse.sectorsDetails :
          /\ aggResponse.scripsDetails["AAA"].sectorName = sector
          /\ aggResponse.scripsDetails["BBB"].sectorName = sector
          /\ aggResponse.scripsDetails["AAA"].totalTurnover > 0
          /\ aggResponse.scripsDetails["BBB"].totalTurnover > 0
          /\ aggResponse.sectorsDetails[sector].totalTurnover =
                aggResponse.scripsDetails["AAA"].totalTurnover
                + aggResponse.scripsDetails["BBB"].totalTurnover

\* C9: a company whose sectorName is not a key of sector_mapper makes the
\* whole request fail: the handler ends in an error and answers neither
\* symbol nor sector details.
C9_UnmappedSectorFailsRequest ==
    (/\ aggResponse.status # "none"
     /\ \E i \in DOMAIN companyList : companyList[i].sectorName \notin DOMAIN sector_mapper) =>
        /\ Cardinality(DOMAIN sector_mapper) = 13
        /\ aggResponse.status = "error"
        /\ "scripsDetails" \notin DOMAIN aggResponse
        /\ "sectorsDetails" \notin DOMAIN aggResponse

C9_Witness ==
    /\ aggResponse.status = "error"
    /\ \E i, j \in DOMAIN companyList :
          /\ companyList[i].sectorName \in DOMAIN sector_mapper
          /\ companyList[j].sectorName \notin DOMAIN sector_mapper
    /\ transactionList = <<>>
    /\ subIndexList = FullSubIndexFeed

(***************************************************************************)
(* Properties of the symbol routes (SpecSym)                               *)
(***************************************************************************)
NamesSymbol(response) == \E i \in DOMAIN response.detail : response.detail[i] = response.symbol

\* C10: on both symbol routes a lookup failure is answered 404 with the
\* symbol in the detail; for get_market_depth that covers the upstream
\* returning None and raising JSONDecodeError, and only the other upstream
\* failures are answered 500.
C10_LookupFailureIs404 ==
    LET graph == symResponse["/daily-scrip-price-graph/{symbol}"]
        depth == symResponse["/market-depth/{symbol}"]
    IN  /\ graph.upstream \in UpstreamErrors => (graph.status = 404 /\ NamesSymbol(graph))
        /\ depth.upstream \in {"None", "JSONDecodeError"} =>
              (depth.status = 404 /\ NamesSymbol(depth))
        /\ depth.upstream \in UpstreamErrors \ {"JSONDecodeError"} => depth.status = 500
====
